---- MODULE Spec2Model ----
(***************************************************************************)
(* Model of the recipe planner's text core:                                *)
(*   - modules/scaling.py : quantity scaler (parser, unit detector,        *)
(*     rounding policy, number formatter) and extract_servings_num         *)
(*   - modules/importer.py: section classifier guess_sections              *)
(* Strings are sequences of characters; a character is a one-character    *)
(* string, or the code point of a character outside ASCII: "U+00BD" is the *)
(* one character VULGAR FRACTION ONE HALF.  Offsets are 0-based as         *)
(* in the source; Slice(s, a, b) is the source's s[a:b].  Floats are exact *)
(* rationals [n, d] with d > 0; values never go negative in the model.     *)
(***************************************************************************)
EXTENDS Integers, Sequences, FiniteSets, TLC

VARIABLES
    pc,            \* position of the modelled call: "call" | "loop" | "fallback" | "done"
    line,          \* scale_line_smart: argument line
    factor,        \* scale_line_smart: argument factor (a positive rational)
    m,             \* scale_line_smart: local m, what _parse_leading_quantity gave
    scaled,        \* scale_line_smart: outcome
    servings_raw,  \* extract_servings_num: argument
    servings_num,  \* extract_servings_num: outcome
    lines,         \* guess_sections: argument
    pos,           \* guess_sections: number of lines the first loop has consumed
    mode,          \* guess_sections: local mode, "None" | "ing" | "steps"
    ingredients,   \* guess_sections: local ingredients
    steps,         \* guess_sections: local steps
    ing_src,       \* guess_sections: for each entry of ingredients, the place in lines it came from
    steps_src,     \* guess_sections: for each entry of steps, the place in lines it came from
    fn_value,         \* _format_number: argument value
    fn_prefer_comma,  \* _format_number: argument prefer_comma
    fn_txt,           \* _format_number: outcome
    servings_target,  \* shopping_list_for_week: it.servings_target of the plan item
    item_base,        \* shopping_list_for_week: local base
    deck_pos,         \* meal planner: st.session_state.deck_pos, None while the key is absent
    search,           \* meal planner: the text of the search field
    card              \* meal planner: what the last run of render showed in the deck

vars == <<pc, line, factor, m, scaled, servings_raw, servings_num,
          lines, pos, mode, ingredients, steps, ing_src, steps_src,
          fn_value, fn_prefer_comma, fn_txt,
          servings_target, item_base, deck_pos, search, card>>

\* the state of the shopping list and of the meal planner page
app_vars == <<servings_target, item_base, deck_pos, search, card>>

\* Python's None, and a str where None is the alternative
None == [kind |-> "None"]

Str(s) == [kind |-> "str", val |-> s]

\* an int where None may stand
IntOf(k) == [kind |-> "int", val |-> k]

\* no plan item is being scaled and the meal planner page has not run
AppIdle ==
    /\ servings_target = None /\ item_base = None
    /\ deck_pos = None /\ search = <<>> /\ card = None

(***************************************************************************)
(* Characters and string helpers (Python str methods and regex classes).   *)
(***************************************************************************)
Digits == <<"0", "1", "2", "3", "4", "5", "6", "7", "8", "9">>

DigitSet == {Digits[i] : i \in 1..Len(Digits)}

\* \d
IsDigit(c) == c \in DigitSet

DigitValue == [c \in DigitSet |-> (CHOOSE i \in 1..Len(Digits) : Digits[i] = c) - 1]

DigitVal(c) == DigitValue[c]

\* \s, and what str.strip / str.lstrip / str.split remove
IsSpace(c) == c = " "

\* the capital letters A-Z and the capital umlauts U+00C4 (A), U+00D6 (O), U+00DC (U)
UpperCase == <<"A", "B", "C", "D", "E", "F", "G", "H", "I", "J", "K", "L", "M",
               "N", "O", "P", "Q", "R", "S", "T", "U", "V", "W", "X", "Y", "Z",
               "U+00C4", "U+00D6", "U+00DC">>

\* the small letters a-z and the small umlauts U+00E4 (a), U+00F6 (o), U+00FC (u)
LowerCase == <<"a", "b", "c", "d", "e", "f", "g", "h", "i", "j", "k", "l", "m",
               "n", "o", "p", "q", "r", "s", "t", "u", "v", "w", "x", "y", "z",
               "U+00E4", "U+00F6", "U+00FC">>

UpperSet == {UpperCase[i] : i \in 1..Len(UpperCase)}

LetterSet == UpperSet \cup {LowerCase[i] : i \in 1..Len(LowerCase)}

IsUpper(c) == c \in UpperSet

\* the regex class of a-z, A-Z and the six umlaut letters
IsLetter(c) == c \in LetterSet

\* a regex word character, for \b (U+00DF is the sharp s)
IsWord(c) == IsLetter(c) \/ IsDigit(c) \/ c = "_" \/ c = "U+00DF"

ToLower == [c \in UpperSet |-> LowerCase[CHOOSE i \in 1..Len(UpperCase) : UpperCase[i] = c]]

LowerChar(c) == IF IsUpper(c) THEN ToLower[c] ELSE c

\* str.lower()
Lower(s) == [i \in 1..Len(s) |-> LowerChar(s[i])]

\* s[a:b] with 0 <= a, b
Slice(s, a, b) == SubSeq(s, a + 1, IF b > Len(s) THEN Len(s) ELSE b)

\* s[a:]
From(s, a) == SubSeq(s, a + 1, Len(s))

\* number of leading whitespace characters
RECURSIVE LeadSpaces(_)
LeadSpaces(s) ==
    IF s # <<>> /\ IsSpace(Head(s)) THEN 1 + LeadSpaces(Tail(s)) ELSE 0

\* str.lstrip()
LStrip(s) == From(s, LeadSpaces(s))

RECURSIVE RStrip(_)
RStrip(s) ==
    IF s # <<>> /\ IsSpace(s[Len(s)]) THEN RStrip(SubSeq(s, 1, Len(s) - 1)) ELSE s

\* str.strip()
Strip(s) == RStrip(LStrip(s))

\* str.rstrip(c) for a one-character argument
RECURSIVE RStripChar(_, _)
RStripChar(s, c) ==
    IF s # <<>> /\ s[Len(s)] = c THEN RStripChar(SubSeq(s, 1, Len(s) - 1), c) ELSE s

\* str.replace(a, b) for a one-character a and a string b
RECURSIVE Replace(_, _, _)
Replace(s, a, b) ==
    IF s = <<>> THEN <<>>
    ELSE (IF Head(s) = a THEN b ELSE <<Head(s)>>) \o Replace(Tail(s), a, b)

\* c in s
Contains(s, c) == \E i \in 1..Len(s) : s[i] = c

\* end offset of the longest run of digits (\d*) that starts at offset i
RECURSIVE DigitsEnd(_, _)
DigitsEnd(s, i) ==
    IF i < Len(s) /\ IsDigit(s[i + 1]) THEN DigitsEnd(s, i + 1) ELSE i

\* end offset of the longest run of whitespace (\s*) that starts at offset i
RECURSIVE SpacesEnd(_, _)
SpacesEnd(s, i) ==
    IF i < Len(s) /\ IsSpace(s[i + 1]) THEN SpacesEnd(s, i + 1) ELSE i

\* end offset of the longest run of letters that starts at offset i
RECURSIVE LettersEnd(_, _)
LettersEnd(s, i) ==
    IF i < Len(s) /\ IsLetter(s[i + 1]) THEN LettersEnd(s, i + 1) ELSE i

\* int(str) of a run of digits
RECURSIVE StrToInt(_)
StrToInt(s) ==
    IF s = <<>> THEN 0 ELSE 10 * StrToInt(SubSeq(s, 1, Len(s) - 1)) + DigitVal(s[Len(s)])

\* str(int) for n >= 0
RECURSIVE IntToStr(_)
IntToStr(n) ==
    IF n < 10 THEN <<Digits[n + 1]>> ELSE IntToStr(n \div 10) \o <<Digits[(n % 10) + 1]>>

RECURSIVE Pow10(_)
Pow10(k) == IF k = 0 THEN 1 ELSE 10 * Pow10(k - 1)

(***************************************************************************)
(* Float arithmetic on exact rationals.                                    *)
(***************************************************************************)
Rat(n, d) == [n |-> n, d |-> d]

RMul(a, b) == Rat(a.n * b.n, a.d * b.d)

RAdd(a, b) == Rat(a.n * b.d + b.n * a.d, a.d * b.d)

REq(a, b) == a.n * b.d = b.n * a.d

\* Python round(x): to the nearest integer, ties to the even one
round(x) ==
    LET q == x.n \div x.d
        r == x.n % x.d
    IN  IF 2 * r < x.d THEN q
        ELSE IF 2 * r > x.d THEN q + 1
        ELSE IF q % 2 = 0 THEN q ELSE q + 1

\* Python round(x, 2)
round2(x) == Rat(round(Rat(x.n * 100, x.d)), 100)

\* the rounding rule of el, tl, tasse, cup, ...: round(x*2)/2
round_half(x) == Rat(round(Rat(x.n * 2, x.d)), 2)

\* a decimal numeral of this many integer digits is beyond the largest float
FLOAT_INF_DIGITS == 310

\* the float infinity, and the result of inf / inf
Inf == Rat(1, 0)

NaN == Rat(0, 0)

\* the digits of s without its leading zeros
RECURSIVE SignificantDigits(_)
SignificantDigits(s) ==
    IF s # <<>> /\ s[1] = "0" THEN SignificantDigits(Tail(s)) ELSE s

\* float(s.replace(",", ".")) of a numeral matched by \d+[\.,]?\d*;
\* float() returns inf, and raises nothing, for a numeral beyond the float range
NumeralValue(s) ==
    LET e == DigitsEnd(s, 0)
        frac == IF e < Len(s) THEN From(s, e + 1) ELSE <<>>
    IN  IF Len(SignificantDigits(SubSeq(s, 1, e))) >= FLOAT_INF_DIGITS THEN Inf
        ELSE Rat(StrToInt(SubSeq(s, 1, e)) * Pow10(Len(frac)) + StrToInt(frac),
                 Pow10(Len(frac)))

(***************************************************************************)
(* Unit names of the rounding table, as the source spells them.            *)
(***************************************************************************)
G_ == <<"g">>

GRAMM == <<"g", "r", "a", "m", "m">>

ML == <<"m", "l">>

STK == <<"s", "t", "k">>

STUECK_KEY == <<"s", "t", "U+00FC", "c", "k">>

EL == <<"e", "l">>

TL == <<"t", "l">>

ESSL_KEY == <<"e", "s", "s", "l", "U+00F6", "f", "f", "e", "l">>

TEEL_KEY == <<"t", "e", "e", "l", "U+00F6", "f", "f", "e", "l">>

KG == <<"k", "g">>

L_ == <<"l">>

TASSE == <<"t", "a", "s", "s", "e">>

CUP == <<"c", "u", "p">>

\* the prefix of the line that the glyph test looks at: s[:4]
UF_PREFIX == 4

\* 1 / 1e-6
EPS_INV == 1000000

\* end offset of the match of \d+[\.,]?\d* at offset i, -1 when there is none
NumberEnd(s, i) ==
    IF i < Len(s) /\ IsDigit(s[i + 1])
    THEN LET d1 == DigitsEnd(s, i)
         IN  IF d1 < Len(s) /\ s[d1 + 1] \in {".", ","} THEN DigitsEnd(s, d1 + 1) ELSE d1
    ELSE -1

(***************************************************************************)
(* modules/scaling.py                                                      *)
(***************************************************************************)
Raise(e) == [kind |-> "raise", exc |-> e]

Ok(v) == [kind |-> "ok", val |-> v]

\* the glyphs and their values
UNICODE_FRACTIONS ==
    [c \in {"U+00BC", "U+00BD", "U+00BE", "U+2153", "U+2154", "U+215B", "U+215C", "U+215D", "U+215E"} |->
        CASE c = "U+00BC" -> Rat(1, 4) [] c = "U+00BD" -> Rat(1, 2) [] c = "U+00BE" -> Rat(3, 4)
          [] c = "U+2153" -> Rat(1, 3) [] c = "U+2154" -> Rat(2, 3)
          [] c = "U+215B" -> Rat(1, 8) [] c = "U+215C" -> Rat(3, 8)
          [] c = "U+215D" -> Rat(5, 8) [] c = "U+215E" -> Rat(7, 8)]

IsFrac(c) == c \in DOMAIN UNICODE_FRACTIONS

RoundInt(x) == Rat(round(x), 1)

\* unit -> rounding rule; a unit outside the table has no rule
UNITS_ROUNDING ==
    [u \in {G_, GRAMM, ML, STK, STUECK_KEY, EL, TL, ESSL_KEY, TEEL_KEY, KG, L_, TASSE, CUP} |->
        CASE u \in {G_, GRAMM, ML, STK, STUECK_KEY} -> "round"
          [] u \in {EL, TL, ESSL_KEY, TEEL_KEY, TASSE, CUP} -> "round_half"
          [] u \in {KG, L_} -> "round2"]

\* extract_servings_num with SERVINGS_NUM.match in place of SERVINGS_NUM.search
extract_servings_num_match(servings_raw_) ==
    IF servings_raw_ = None \/ servings_raw_.val = <<>> THEN None
    ELSE LET s == servings_raw_.val
         IN  IF NumberEnd(s, 0) < 0 THEN None
             ELSE NumeralValue(Slice(s, 0, NumberEnd(s, 0)))

\* the first decimal number of a free-text servings field
extract_servings_num(servings_raw_) ==
    IF servings_raw_ = None \/ servings_raw_.val = <<>> THEN None
    ELSE LET s == servings_raw_.val
             starts == {i \in 0..(Len(s) - 1) : IsDigit(s[i + 1])}
         IN  IF starts = {} THEN None
             ELSE LET i == CHOOSE j \in starts : \A k \in starts : j <= k
                  IN  NumeralValue(Slice(s, i, NumberEnd(s, i)))

RANGE_SEP == {"-", "U+2013", "U+2014"}

\* the match of ^\s*(\d+)?\s*([glyphs]) at the start of txt:
\* [d0, d1) is group 1 (empty when absent), g the offset of the glyph; None when no match
UnicodeMatch(txt) ==
    LET w0 == SpacesEnd(txt, 0)
        d1 == DigitsEnd(txt, w0)
        g  == SpacesEnd(txt, d1)
    IN  IF g < Len(txt) /\ IsFrac(txt[g + 1])
        THEN [kind |-> "match", d0 |-> w0, d1 |-> d1, g |-> g]
        ELSE None

_unicode_fracs_to_float(txt) ==
    LET um == UnicodeMatch(txt)
    IN  IF um = None THEN None
        ELSE LET base == IF um.d1 > um.d0 THEN Rat(StrToInt(Slice(txt, um.d0, um.d1)), 1)
                         ELSE Rat(0, 1)
             IN  RAdd(base, UNICODE_FRACTIONS[txt[um.g + 1]])

Token(kind, start, end, val, had_comma) ==
    [kind |-> kind, start |-> start, end |-> end, val |-> val, had_comma |-> had_comma]

\* the match of (\d+[\.,]?\d*)\s*{RANGE_SEP}\s*(\d+[\.,]?\d*) at the start of s
RangeMatch(s) ==
    LET e1 == NumberEnd(s, 0)
        w1 == SpacesEnd(s, e1)
        w2 == SpacesEnd(s, w1 + 1)
        e2 == NumberEnd(s, w2)
    IN  IF e1 >= 0 /\ w1 < Len(s) /\ s[w1 + 1] \in RANGE_SEP /\ e2 >= 0
        THEN [kind |-> "match", e1 |-> e1, b2 |-> w2, e2 |-> e2]
        ELSE None

\* the match of (\d+)\s+(\d+)/(\d+) at the start of s
MixedMatch(s) ==
    LET e1 == DigitsEnd(s, 0)
        b2 == SpacesEnd(s, e1)
        e2 == DigitsEnd(s, b2)
        e3 == DigitsEnd(s, e2 + 1)
    IN  IF e1 > 0 /\ b2 > e1 /\ e2 > b2 /\ e2 < Len(s) /\ s[e2 + 1] = "/" /\ e3 > e2 + 1
        THEN [kind |-> "match", e1 |-> e1, b2 |-> b2, e2 |-> e2, e3 |-> e3]
        ELSE None

\* _parse_leading_quantity recording the span relative to the stripped line s
_parse_leading_quantity_rel(line_) ==
    LET s   == LStrip(line_)
        rm  == RangeMatch(s)
        mm  == MixedMatch(s)
        uf  == _unicode_fracs_to_float(Slice(s, 0, UF_PREFIX))
        sm  == UnicodeMatch(s)
        e   == NumberEnd(s, 0)
    IN  IF rm # None
        THEN Token("range", 0, rm.e2,
                   [a |-> NumeralValue(Slice(s, 0, rm.e1)),
                    b |-> NumeralValue(Slice(s, rm.b2, rm.e2))],
                   Contains(Slice(s, 0, rm.e1), ","))
        ELSE IF mm # None
        THEN LET den == StrToInt(Slice(s, mm.e2 + 1, mm.e3))
             IN  IF den = 0 THEN Raise("ZeroDivisionError")
                 ELSE Token("single", 0, mm.e3,
                            RAdd(Rat(StrToInt(Slice(s, 0, mm.e1)), 1),
                                 Rat(StrToInt(Slice(s, mm.b2, mm.e2)), den)),
                            FALSE)
        ELSE IF uf # None
        THEN Token("single", 0, sm.g + 1, uf, FALSE)
        ELSE IF e >= 0
        THEN Token("single", 0, e, NumeralValue(Slice(s, 0, e)),
                   Contains(Slice(s, 0, e), ","))
        ELSE None

_parse_leading_quantity(line_) ==
    LET s   == LStrip(line_)
        off == Len(line_) - Len(s)
        rm  == RangeMatch(s)
        mm  == MixedMatch(s)
        uf  == _unicode_fracs_to_float(Slice(s, 0, UF_PREFIX))
        sm  == UnicodeMatch(s)
        e   == NumberEnd(s, 0)
    IN  IF rm # None
        THEN Token("range", off, off + rm.e2,
                   [a |-> NumeralValue(Slice(s, 0, rm.e1)),
                    b |-> NumeralValue(Slice(s, rm.b2, rm.e2))],
                   Contains(Slice(s, 0, rm.e1), ","))
        ELSE IF mm # None
        THEN LET den == StrToInt(Slice(s, mm.e2 + 1, mm.e3))
             IN  IF den = 0 THEN Raise("ZeroDivisionError")
                 ELSE Token("single", off, off + mm.e3,
                            RAdd(Rat(StrToInt(Slice(s, 0, mm.e1)), 1),
                                 Rat(StrToInt(Slice(s, mm.b2, mm.e2)), den)),
                            FALSE)
        ELSE IF uf # None
        THEN Token("single", off, off + sm.g + 1, uf, FALSE)
        ELSE IF e >= 0
        THEN Token("single", off, off + e, NumeralValue(Slice(s, 0, e)),
                   Contains(Slice(s, 0, e), ","))
        ELSE None

\* _detect_unit_after without the replacement of the umlauts
_detect_unit_after_nofold(line_, end_idx) ==
    LET tail == Lower(Strip(From(line_, end_idx)))
        e    == LettersEnd(tail, 0)
    IN  IF e = 0 THEN None ELSE Str(Slice(tail, 0, e))

_detect_unit_after(line_, end_idx) ==
    LET tail == Lower(Strip(From(line_, end_idx)))
        e    == LettersEnd(tail, 0)
    IN  IF e = 0 THEN None
        ELSE Str(Replace(Replace(Replace(Slice(tail, 0, e), "U+00E4", <<"a", "e">>),
                                 "U+00F6", <<"o", "e">>), "U+00FC", <<"u", "e">>))

\* f"{value:.2f}"
Fixed2(value) ==
    LET c == round(Rat(value.n * 100, value.d))
    IN  IntToStr(c \div 100) \o <<".", Digits[((c \div 10) % 10) + 1], Digits[(c % 10) + 1]>>

\* abs(value - round(value)) > 1e-6
FarFromInt(value) ==
    LET r    == round(value)
        diff == IF value.n >= r * value.d THEN value.n - r * value.d ELSE r * value.d - value.n
    IN  diff # 0 /\ (value.d \div diff) < EPS_INV

\* _format_number leaving the period in place whatever prefer_comma is
_format_number_period(value, prefer_comma) ==
    LET txt  == IF FarFromInt(value) THEN Fixed2(value) ELSE IntToStr(round(value))
    IN  RStripChar(RStripChar(txt, "0"), ".")

_format_number(value, prefer_comma) ==
    LET txt  == IF FarFromInt(value) THEN Fixed2(value) ELSE IntToStr(round(value))
        txt2 == RStripChar(RStripChar(txt, "0"), ".")
    IN  IF prefer_comma THEN Replace(txt2, ".", <<",">>) ELSE txt2

\* _apply_round rounding to the nearest integer when the unit has no rule
_apply_round_default_int(unit, x) ==
    LET func == IF unit # None /\ unit.val \in DOMAIN UNITS_ROUNDING THEN UNITS_ROUNDING[unit.val]
                ELSE "round"
    IN  CASE func = "round" -> RoundInt(x)
          [] func = "round_half" -> round_half(x)
          [] func = "round2" -> round2(x)
          [] OTHER -> x

_apply_round(unit, x) ==
    LET func == IF unit # None /\ unit.val \in DOMAIN UNITS_ROUNDING THEN UNITS_ROUNDING[unit.val]
                ELSE "none"
    IN  CASE func = "round" -> RoundInt(x)
          [] func = "round_half" -> round_half(x)
          [] func = "round2" -> round2(x)
          [] OTHER -> x

\* ScaleMatched keeping a hyphen between the bounds of a range
ScaleMatched_hyphen(line_, factor_, m_) ==
    LET unit == _detect_unit_after(line_, m_.end)
    IN  IF m_.kind = "range"
        THEN LET a == _apply_round(unit, RMul(m_.val.a, factor_))
                 b == _apply_round(unit, RMul(m_.val.b, factor_))
             IN  Ok(Slice(line_, 0, m_.start)
                    \o _format_number(a, m_.had_comma) \o <<"-">>
                    \o _format_number(b, m_.had_comma)
                    \o From(line_, m_.end))
        ELSE LET x == _apply_round(unit, RMul(m_.val, factor_))
             IN  Ok(Slice(line_, 0, m_.start) \o _format_number(x, m_.had_comma)
                    \o From(line_, m_.end))

\* ScaleMatched putting back the rest of the line without its leading whitespace
ScaleMatched_trimmed(line_, factor_, m_) ==
    LET unit == _detect_unit_after(line_, m_.end)
    IN  IF m_.kind = "range"
        THEN LET a == _apply_round(unit, RMul(m_.val.a, factor_))
                 b == _apply_round(unit, RMul(m_.val.b, factor_))
             IN  Ok(Slice(line_, 0, m_.start)
                    \o _format_number(a, m_.had_comma) \o <<"U+2013">>
                    \o _format_number(b, m_.had_comma)
                    \o LStrip(From(line_, m_.end)))
        ELSE LET x == _apply_round(unit, RMul(m_.val, factor_))
             IN  Ok(Slice(line_, 0, m_.start) \o _format_number(x, m_.had_comma)
                    \o LStrip(From(line_, m_.end)))

\* scale_line_smart from "kind, start, end, val, had_comma = m" on
ScaleMatched(line_, factor_, m_) ==
    LET unit == _detect_unit_after(line_, m_.end)
    IN  IF m_.kind = "range"
        THEN LET a == _apply_round(unit, RMul(m_.val.a, factor_))
                 b == _apply_round(unit, RMul(m_.val.b, factor_))
             IN  Ok(Slice(line_, 0, m_.start)
                    \o _format_number(a, m_.had_comma) \o <<"U+2013">>
                    \o _format_number(b, m_.had_comma)
                    \o From(line_, m_.end))
        ELSE LET x == _apply_round(unit, RMul(m_.val, factor_))
             IN  Ok(Slice(line_, 0, m_.start) \o _format_number(x, m_.had_comma)
                    \o From(line_, m_.end))

\* scale_line_smart returning the stripped line s when nothing matches
scale_line_smart_stripped(line_, factor_) ==
    LET m_ == _parse_leading_quantity(line_)
    IN  IF m_.kind = "raise" THEN m_
        ELSE IF m_ = None THEN Ok(LStrip(line_))
        ELSE ScaleMatched(line_, factor_, m_)

scale_line_smart(line_, factor_) ==
    LET m_ == _parse_leading_quantity(line_)
    IN  IF m_.kind = "raise" THEN m_
        ELSE IF m_ = None THEN Ok(line_)
        ELSE ScaleMatched(line_, factor_, m_)

(***************************************************************************)
(* Inputs of the scaler.                                                   *)
(***************************************************************************)
\* longest enumerated start of a line
MaxHead == 3

\* most digits of the integer in front of a glyph
MaxFracDigits == 4

HeadAlphabet == {"0", "1", "2", " ", "/", "-", "U+2013", ",", ".", "U+00BD"}

\* every string over HeadAlphabet of at most MaxHead characters
Heads == UNION {[1..k -> HeadAlphabet] : k \in 0..MaxHead}

\* <integer> <spaces> <integer>/<integer>
MixedHeads ==
    {<<a>> \o sp \o <<b, "/">> \o c :
        a \in {"0", "1", "2"}, sp \in {<<" ">>, <<" ", " ">>}, b \in {"0", "1", "3"},
        c \in {<<"0">>, <<"2">>, <<"3">>, <<"4">>, <<"0", "0">>, <<"1", "0">>}}

\* <integer of 0..MaxFracDigits digits> <optional space> <glyph>
FracHeads ==
    {SubSeq(<<"1", "2", "3", "4", "5", "6", "7", "8", "9">>, 1, k) \o sp \o <<g>> :
        k \in 0..MaxFracDigits, sp \in {<<>>, <<" ">>}, g \in DOMAIN UNICODE_FRACTIONS}

Tails == {<<>>,
          <<" ", "g", " ", "M", "e", "h", "l">>,
          <<"g">>,
          <<" ", "E", "L">>,
          <<" ", "S", "t", "U+00FC", "c", "k">>,
          <<" ", "E", "i", "e", "r">>}

Examples == {<<"5", "0", "0", " ", "g", " ", "M", "e", "h", "l">>,
             <<"2", "-", "3", " ", "E", "L", " ", "Z", "u", "c", "k", "e", "r">>,
             <<"1", " ", "1", "/", "2", " ", "T", "L", " ", "S", "a", "l", "z">>,
             <<"U+00BD", " ", "T", "a", "s", "s", "e", " ", "M", "i", "l", "c", "h">>,
             <<"1", " ", "1", "/", "0", " ", "T", "L">>,
             <<"1", "0", " ", "g", " ", "M", "e", "h", "l">>,
             <<"5", " ", "U+2014", " ", "1", "0", " ", "g">>,
             <<"1", ",", "5", " ", "k", "g", " ", "M", "e", "h", "l">>,
             <<"1", ".", "5", "0", " ", "l", " ", "M", "i", "l", "c", "h">>,
             <<"E", "i", "e", "r">>,
             <<" ", " ", "3", " ", "E", "i", "e", "r">>,
             <<"2", ",", "5", "-", "3", " ", "T", "a", "s", "s", "e", "n">>}

\* unit words as they are written in recipes, one or more for every rounding rule
UnitWords == {<<"g">>, <<"G", "r", "a", "m", "m">>, <<"m", "l">>, <<"S", "t", "k">>,
              <<"S", "t", "U+00FC", "c", "k">>, <<"S", "t", "u", "e", "c", "k">>,
              <<"E", "L">>, <<"T", "L">>,
              <<"E", "s", "s", "l", "U+00F6", "f", "f", "e", "l">>,
              <<"T", "e", "e", "l", "U+00F6", "f", "f", "e", "l">>,
              <<"T", "a", "s", "s", "e">>, <<"C", "u", "p">>,
              <<"k", "g">>, <<"l">>, <<"E", "i", "e", "r">>, <<"U+00D6", "l">>}

UnitHeads == {<<"1">>, <<"3">>, <<"2", ",", "5">>, <<"1", "-", "2">>, <<"U+00BC">>}

\* <quantity> <unit word>
UnitLines == {h \o <<" ">> \o u : h \in UnitHeads, u \in UnitWords}

Lines ==
    {h \o t : h \in Heads \cup MixedHeads \cup FracHeads, t \in Tails} \cup Examples \cup UnitLines

Factors == {Rat(1, 2), Rat(1, 1), Rat(3, 2), Rat(2, 1), Rat(3, 1)}

(***************************************************************************)
(* The calls.                                                              *)
(***************************************************************************)
InitScale ==
    /\ AppIdle
    /\ pc = "call"
    /\ line \in Lines
    /\ factor \in Factors
    /\ m = None /\ scaled = None
    /\ servings_raw = None /\ servings_num = None
    /\ lines = <<>> /\ pos = 0 /\ mode = "None" /\ ingredients = <<>> /\ steps = <<>>
    /\ ing_src = <<>> /\ steps_src = <<>>
    /\ fn_value = Rat(0, 1) /\ fn_prefer_comma = FALSE /\ fn_txt = None

\* scale_line_smart(line, factor) returns or raises
ScaleLine ==
    /\ pc = "call"
    /\ m' = _parse_leading_quantity(line)
    /\ scaled' = scale_line_smart(line, factor)
    /\ pc' = "done"
    /\ UNCHANGED app_vars
    /\ UNCHANGED <<line, factor, servings_raw, servings_num,
                   lines, pos, mode, ingredients, steps, ing_src, steps_src,
                   fn_value, fn_prefer_comma, fn_txt>>

NextScale == ScaleLine

SpecScale == InitScale /\ [][NextScale]_vars

(***************************************************************************)
(* _format_number: inputs and call.                                        *)
(***************************************************************************)
\* largest enumerated numerator of a value
MaxNumerator == 1000

FormatDenominators == {1, 3, 8, 16, 100, 10000000}

\* 3.0000001, 9.9999999 and 20.0000001: within 1e-6 of an integer
NearIntegers == {Rat(30000001, 10000000), Rat(99999999, 10000000), Rat(200000001, 10000000)}

FormatValues ==
    {Rat(n, d) : n \in 0..MaxNumerator, d \in FormatDenominators} \cup NearIntegers

InitFormat ==
    /\ AppIdle
    /\ pc = "call"
    /\ fn_value \in FormatValues
    /\ fn_prefer_comma \in BOOLEAN
    /\ fn_txt = None
    /\ line = <<>> /\ factor = Rat(1, 1) /\ m = None /\ scaled = None
    /\ servings_raw = None /\ servings_num = None
    /\ lines = <<>> /\ pos = 0 /\ mode = "None" /\ ingredients = <<>> /\ steps = <<>>
    /\ ing_src = <<>> /\ steps_src = <<>>

\* _format_number(value, prefer_comma) returns
FormatNumber ==
    /\ pc = "call"
    /\ fn_txt' = Str(_format_number(fn_value, fn_prefer_comma))
    /\ pc' = "done"
    /\ UNCHANGED app_vars
    /\ UNCHANGED <<fn_value, fn_prefer_comma, line, factor, m, scaled, servings_raw, servings_num,
                   lines, pos, mode, ingredients, steps, ing_src, steps_src>>

NextFormat == FormatNumber

SpecFormat == InitFormat /\ [][NextFormat]_vars

(***************************************************************************)
(* Words, lines and texts used below.                                      *)
(***************************************************************************)
\* the header words of RE_ING_HEADER and RE_STEPS_HEADER
W_ZUTATEN == <<"z", "u", "t", "a", "t", "e", "n">>

W_INGREDIENTS == <<"i", "n", "g", "r", "e", "d", "i", "e", "n", "t", "s">>

W_ZUBEREITUNG == <<"z", "u", "b", "e", "r", "e", "i", "t", "u", "n", "g">>

W_ANLEITUNG == <<"a", "n", "l", "e", "i", "t", "u", "n", "g">>

W_DIRECTIONS == <<"d", "i", "r", "e", "c", "t", "i", "o", "n", "s">>

W_METHOD == <<"m", "e", "t", "h", "o", "d">>

\* the lines the classifier's inputs are made of
L_ZUTATEN == <<"Z", "u", "t", "a", "t", "e", "n">>

L_ZUBEREITUNG == <<"Z", "u", "b", "e", "r", "e", "i", "t", "u", "n", "g">>

L_B_EI == <<"-", " ", "1", " ", "E", "i">>

L_EI == <<"1", " ", "E", "i">>

L_B_MEHL == <<"-", " ", "2", "0", "0", "g", " ", "M", "e", "h", "l">>

L_VERRUEHREN == <<"M", "e", "h", "l", " ", "u", "n", "d", " ", "E", "i", " ", "v", "e", "r", "r", "U+00FC", "h", "r", "e", "n", ".">>

L_EMPTY == <<>>

L_BACKEN == <<"2", "-", "3", " ", "M", "i", "n", ".", " ", "b", "a", "c", "k", "e", "n", " ", "l", "a", "s", "s", "e", "n">>

L_N_OFEN == <<"1", ".", " ", "O", "f", "e", "n", " ", "v", "o", "r", "h", "e", "i", "z", "e", "n">>

L_RANGE_ZUCKER == <<"2", "-", "3", " ", "E", "L", " ", "Z", "u", "c", "k", "e", "r">>

L_ZUTATEN_MISCHEN == <<"Z", "u", "t", "a", "t", "e", "n", " ", "m", "i", "s", "c", "h", "e", "n">>

L_INGREDIENTS_C == <<"I", "N", "G", "R", "E", "D", "I", "E", "N", "T", "S", ":">>

L_METHOD_C == <<"M", "e", "t", "h", "o", "d", ":">>

\* the example input of the classifier, and an English one
EX_RECIPE == <<L_ZUTATEN, L_B_MEHL, L_B_EI, L_ZUBEREITUNG, L_VERRUEHREN>>

EX_RECIPE_EN == <<L_INGREDIENTS_C, L_B_MEHL, L_EI, L_METHOD_C, L_N_OFEN, L_VERRUEHREN>>

\* "200g Mehl", the second line of the example without its marker
EX_ING_MEHL == <<"2", "0", "0", "g", " ", "M", "e", "h", "l">>

\* the example servings texts
EX_4PORTIONEN == <<"4", " ", "P", "o", "r", "t", "i", "o", "n", "e", "n">>

EX_PORTIONEN == <<"P", "o", "r", "t", "i", "o", "n", "e", "n">>

(***************************************************************************)
(* extract_servings_num: inputs and call.                                  *)
(***************************************************************************)
\* longest enumerated servings text
MaxServLen == 4

ServAlphabet == {"4", "0", "2", ",", ".", "P", " "}

ServingsTexts ==
    UNION {[1..k -> ServAlphabet] : k \in 0..MaxServLen} \cup {EX_4PORTIONEN, EX_PORTIONEN}

InitServings ==
    /\ AppIdle
    /\ pc = "call"
    /\ servings_raw \in {None} \cup {Str(SubSeq(s, 1, Len(s))) : s \in ServingsTexts}
    /\ servings_num = None
    /\ line = <<>> /\ factor = Rat(1, 1) /\ m = None /\ scaled = None
    /\ lines = <<>> /\ pos = 0 /\ mode = "None" /\ ingredients = <<>> /\ steps = <<>>
    /\ ing_src = <<>> /\ steps_src = <<>>
    /\ fn_value = Rat(0, 1) /\ fn_prefer_comma = FALSE /\ fn_txt = None

\* extract_servings_num(servings_raw) returns
ExtractServings ==
    /\ pc = "call"
    /\ servings_num' = extract_servings_num(servings_raw)
    /\ pc' = "done"
    /\ UNCHANGED app_vars
    /\ UNCHANGED <<line, factor, m, scaled, servings_raw,
                   lines, pos, mode, ingredients, steps, ing_src, steps_src,
                   fn_value, fn_prefer_comma, fn_txt>>

NextServings == ExtractServings

SpecServings == InitServings /\ [][NextServings]_vars

(***************************************************************************)
(* modules/importer.py: guess_sections                                     *)
(***************************************************************************)
\* s starts with word w, compared case-insensitively, followed by a word boundary
StartsWithWord(l, w) ==
    /\ Len(l) >= Len(w)
    /\ Lower(SubSeq(l, 1, Len(w))) = w
    /\ (IF Len(l) = Len(w) THEN TRUE ELSE ~IsWord(l[Len(w) + 1]))

\* ^(zutaten|ingredients)\b, re.I
RE_ING_HEADER(l) ==
    \E w \in {W_ZUTATEN, W_INGREDIENTS} : StartsWithWord(l, w)

\* ^(zubereitung|anleitung|directions|method)\b, re.I
RE_STEPS_HEADER(l) ==
    \E w \in {W_ZUBEREITUNG, W_ANLEITUNG, W_DIRECTIONS, W_METHOD} : StartsWithWord(l, w)

\* the marker glyphs: - * and the bullets U+2022, U+2023, U+2043
BulletChars == {"-", "*", "U+2022", "U+2023", "U+2043"}

\* end offset of the match of BULLET, ^\s*([marker]|\d+\.)\s+, or -1
BULLET(l) ==
    LET w0 == SpacesEnd(l, 0)
        d  == DigitsEnd(l, w0)
        a  == IF w0 < Len(l) /\ l[w0 + 1] \in BulletChars THEN w0 + 1
              ELSE IF d > w0 /\ d < Len(l) /\ l[d + 1] = "." THEN d + 1
              ELSE -1
    IN  IF a >= 0 /\ SpacesEnd(l, a) > a THEN SpacesEnd(l, a) ELSE -1

\* BULLET.sub("", l)
BulletSub(l) == IF BULLET(l) >= 0 THEN From(l, BULLET(l)) ELSE l

\* re.match(r"^\d*\s?[letter]+", l)
LooksLikeItem(l) ==
    LET d == DigitsEnd(l, 0)
    IN  \/ d < Len(l) /\ IsLetter(l[d + 1])
        \/ d + 1 < Len(l) /\ IsSpace(l[d + 1]) /\ IsLetter(l[d + 2])

\* len(l.split())
WordCount(l) ==
    Cardinality({i \in 1..Len(l) : ~IsSpace(l[i]) /\ (i = 1 \/ IsSpace(l[i - 1]))})

\* the fallback's loop: the first contiguous run of bullet-marked lines, markers stripped
RECURSIVE IngBlock(_, _)
IngBlock(ls, ing_block) ==
    IF ls = <<>> THEN ing_block
    ELSE IF BULLET(Head(ls)) >= 0 THEN IngBlock(Tail(ls), Append(ing_block, BulletSub(Head(ls))))
    ELSE IF ing_block # <<>> THEN ing_block
    ELSE IngBlock(Tail(ls), ing_block)

\* the places in ls of the lines the fallback's loop collects, k the place of Head(ls)
RECURSIVE IngBlockSrc(_, _, _)
IngBlockSrc(ls, k, src) ==
    IF ls = <<>> THEN src
    ELSE IF BULLET(Head(ls)) >= 0 THEN IngBlockSrc(Tail(ls), k + 1, Append(src, k))
    ELSE IF src # <<>> THEN src
    ELSE IngBlockSrc(Tail(ls), k + 1, src)

\* list.index(x) as a 0-based offset, for x in ls
ListIndex(ls, x) == (CHOOSE i \in 1..Len(ls) : ls[i] = x /\ \A j \in 1..(i - 1) : ls[j] # x) - 1

\* [l for l in ls if l]
RECURSIVE NonEmpty(_)
NonEmpty(ls) ==
    IF ls = <<>> THEN <<>>
    ELSE (IF Head(ls) # <<>> THEN <<Head(ls)>> ELSE <<>>) \o NonEmpty(Tail(ls))

\* the steps the fallback computes from a non-empty ing_block
FallbackSteps(ls, ing_block) ==
    LET last == ing_block[Len(ing_block)]
        idx  == IF \E i \in 1..Len(ls) : ls[i] = last THEN ListIndex(ls, last) ELSE 0
    IN  NonEmpty(From(ls, idx + 1))

\* the places in ls of the lines FallbackSteps keeps
RECURSIVE NonEmptySrc(_, _)
NonEmptySrc(ls, k) ==
    IF k > Len(ls) THEN <<>>
    ELSE (IF ls[k] # <<>> THEN <<k>> ELSE <<>>) \o NonEmptySrc(ls, k + 1)

FallbackStepsSrc(ls, ing_block) ==
    LET last == ing_block[Len(ing_block)]
        idx  == IF \E i \in 1..Len(ls) : ls[i] = last THEN ListIndex(ls, last) ELSE 0
    IN  NonEmptySrc(ls, idx + 2)

(***************************************************************************)
(* Inputs of the classifier.                                               *)
(***************************************************************************)
\* longest freely enumerated input of the classifier
MaxLines == 3

\* longest run of bullet-marked lines in the shaped inputs
MaxRun == 2

IngHeaders == {L_ZUTATEN, L_INGREDIENTS_C}

StepsHeaders == {L_ZUBEREITUNG, L_METHOD_C}

Bullets == {L_B_EI, L_B_MEHL, L_N_OFEN}

Others == {L_EI, L_VERRUEHREN, L_EMPTY, L_BACKEN, L_RANGE_ZUCKER}

Catalogue == {L_ZUTATEN, L_ZUBEREITUNG, L_ZUTATEN_MISCHEN} \cup Bullets \cup Others

\* every sequence over S of lo..hi lines
SeqsOf(S, lo, hi) == UNION {[1..k -> S] : k \in lo..hi}

\* header, bullet run, header, further lines
HeaderShaped ==
    {<<h1>> \o bs \o <<h2>> \o fs :
        h1 \in IngHeaders, bs \in SeqsOf(Bullets, 1, MaxRun), h2 \in StepsHeaders,
        fs \in SeqsOf(Bullets \cup Others, 0, 2)}

\* no header: at most one line, a bullet run, further lines
RunShaped ==
    {pre \o bs \o post :
        pre \in SeqsOf(Others, 0, 1), bs \in SeqsOf(Bullets, 1, MaxRun),
        post \in SeqsOf(Bullets \cup Others, 0, 2)}

LineSeqs ==
    SeqsOf(Catalogue, 0, MaxLines) \cup HeaderShaped \cup RunShaped \cup {EX_RECIPE, EX_RECIPE_EN}

InitClassify ==
    /\ AppIdle
    /\ pc = "loop"
    /\ lines \in {SubSeq(ls, 1, Len(ls)) : ls \in LineSeqs}
    /\ pos = 0 /\ mode = "None" /\ ingredients = <<>> /\ steps = <<>>
    /\ ing_src = <<>> /\ steps_src = <<>>
    /\ fn_value = Rat(0, 1) /\ fn_prefer_comma = FALSE /\ fn_txt = None
    /\ line = <<>> /\ factor = Rat(1, 1) /\ m = None /\ scaled = None
    /\ servings_raw = None /\ servings_num = None

\* the line the first loop looks at
Cur == lines[pos + 1]

\* for l in lines: an ingredients header
LoopIngHeader ==
    /\ pc = "loop" /\ pos < Len(lines)
    /\ RE_ING_HEADER(Cur)
    /\ mode' = "ing"
    /\ pos' = pos + 1
    /\ UNCHANGED app_vars
    /\ UNCHANGED <<pc, ingredients, steps, ing_src, steps_src, lines, line, factor, m, scaled,
                   servings_raw, servings_num, fn_value, fn_prefer_comma, fn_txt>>

\* for l in lines: a steps header
LoopStepsHeader ==
    /\ pc = "loop" /\ pos < Len(lines)
    /\ ~RE_ING_HEADER(Cur) /\ RE_STEPS_HEADER(Cur)
    /\ mode' = "steps"
    /\ pos' = pos + 1
    /\ UNCHANGED app_vars
    /\ UNCHANGED <<pc, ingredients, steps, ing_src, steps_src, lines, line, factor, m, scaled,
                   servings_raw, servings_num, fn_value, fn_prefer_comma, fn_txt>>

\* LoopLine appending the line as it is, marker included
LoopLine_unstripped ==
    /\ pc = "loop" /\ pos < Len(lines)
    /\ ~RE_ING_HEADER(Cur) /\ ~RE_STEPS_HEADER(Cur)
    /\ LET item  == BULLET(Cur) >= 0 \/ LooksLikeItem(Cur)
           mode1 == IF mode = "ing" /\ ~item /\ Cur # <<>> /\ WordCount(Cur) > 3
                    THEN "steps" ELSE mode
       IN  /\ ingredients' = IF mode = "ing" /\ item
                             THEN Append(ingredients, Cur) ELSE ingredients
           /\ ing_src' = IF mode = "ing" /\ item THEN Append(ing_src, pos + 1) ELSE ing_src
           /\ mode' = mode1
           /\ steps' = IF mode1 = "steps" /\ Cur # <<>>
                       THEN Append(steps, Cur) ELSE steps
           /\ steps_src' = IF mode1 = "steps" /\ Cur # <<>>
                           THEN Append(steps_src, pos + 1) ELSE steps_src
    /\ pos' = pos + 1
    /\ UNCHANGED app_vars
    /\ UNCHANGED <<pc, lines, line, factor, m, scaled, servings_raw, servings_num,
                   fn_value, fn_prefer_comma, fn_txt>>

\* LoopLine never leaving state "ing" at a line of prose
LoopLine_nosplit ==
    /\ pc = "loop" /\ pos < Len(lines)
    /\ ~RE_ING_HEADER(Cur) /\ ~RE_STEPS_HEADER(Cur)
    /\ LET item  == BULLET(Cur) >= 0 \/ LooksLikeItem(Cur)
       IN  /\ ingredients' = IF mode = "ing" /\ item
                             THEN Append(ingredients, BulletSub(Cur)) ELSE ingredients
           /\ ing_src' = IF mode = "ing" /\ item THEN Append(ing_src, pos + 1) ELSE ing_src
           /\ mode' = mode
           /\ steps' = IF mode = "steps" /\ Cur # <<>>
                       THEN Append(steps, BulletSub(Cur)) ELSE steps
           /\ steps_src' = IF mode = "steps" /\ Cur # <<>>
                           THEN Append(steps_src, pos + 1) ELSE steps_src
    /\ pos' = pos + 1
    /\ UNCHANGED app_vars
    /\ UNCHANGED <<pc, lines, line, factor, m, scaled, servings_raw, servings_num,
                   fn_value, fn_prefer_comma, fn_txt>>

\* LoopLine putting each line in front of the lines collected so far
LoopLine_prepend ==
    /\ pc = "loop" /\ pos < Len(lines)
    /\ ~RE_ING_HEADER(Cur) /\ ~RE_STEPS_HEADER(Cur)
    /\ LET item  == BULLET(Cur) >= 0 \/ LooksLikeItem(Cur)
           mode1 == IF mode = "ing" /\ ~item /\ Cur # <<>> /\ WordCount(Cur) > 3
                    THEN "steps" ELSE mode
       IN  /\ ingredients' = IF mode = "ing" /\ item
                             THEN <<BulletSub(Cur)>> \o ingredients ELSE ingredients
           /\ ing_src' = IF mode = "ing" /\ item THEN <<pos + 1>> \o ing_src ELSE ing_src
           /\ mode' = mode1
           /\ steps' = IF mode1 = "steps" /\ Cur # <<>>
                       THEN <<BulletSub(Cur)>> \o steps ELSE steps
           /\ steps_src' = IF mode1 = "steps" /\ Cur # <<>>
                           THEN <<pos + 1>> \o steps_src ELSE steps_src
    /\ pos' = pos + 1
    /\ UNCHANGED app_vars
    /\ UNCHANGED <<pc, lines, line, factor, m, scaled, servings_raw, servings_num,
                   fn_value, fn_prefer_comma, fn_txt>>

\* for l in lines: any other line, through "if mode == ing" and "if mode == steps"
LoopLine ==
    /\ pc = "loop" /\ pos < Len(lines)
    /\ ~RE_ING_HEADER(Cur) /\ ~RE_STEPS_HEADER(Cur)
    /\ LET item  == BULLET(Cur) >= 0 \/ LooksLikeItem(Cur)
           mode1 == IF mode = "ing" /\ ~item /\ Cur # <<>> /\ WordCount(Cur) > 3
                    THEN "steps" ELSE mode
       IN  /\ ingredients' = IF mode = "ing" /\ item
                             THEN Append(ingredients, BulletSub(Cur)) ELSE ingredients
           /\ ing_src' = IF mode = "ing" /\ item THEN Append(ing_src, pos + 1) ELSE ing_src
           /\ mode' = mode1
           /\ steps' = IF mode1 = "steps" /\ Cur # <<>>
                       THEN Append(steps, BulletSub(Cur)) ELSE steps
           /\ steps_src' = IF mode1 = "steps" /\ Cur # <<>>
                           THEN Append(steps_src, pos + 1) ELSE steps_src
    /\ pos' = pos + 1
    /\ UNCHANGED app_vars
    /\ UNCHANGED <<pc, lines, line, factor, m, scaled, servings_raw, servings_num,
                   fn_value, fn_prefer_comma, fn_txt>>

\* the loop is over: "if not ingredients" decides whether the fallback runs
LoopExit ==
    /\ pc = "loop" /\ pos = Len(lines)
    /\ pc' = IF ingredients = <<>> THEN "fallback" ELSE "done"
    /\ UNCHANGED app_vars
    /\ UNCHANGED <<pos, mode, ingredients, steps, ing_src, steps_src, lines, line, factor, m, scaled,
                   servings_raw, servings_num, fn_value, fn_prefer_comma, fn_txt>>

\* Fallback taking every line as a step when no bullet-marked line is found
Fallback_prose ==
    /\ pc = "fallback"
    /\ LET ing_block == IngBlock(lines, <<>>)
       IN  IF ing_block # <<>>
           THEN /\ ingredients' = ing_block
                /\ ing_src' = IngBlockSrc(lines, 1, <<>>)
                /\ steps' = FallbackSteps(lines, ing_block)
                /\ steps_src' = FallbackStepsSrc(lines, ing_block)
           ELSE /\ steps' = NonEmpty(lines)
                /\ steps_src' = NonEmptySrc(lines, 1)
                /\ UNCHANGED <<ingredients, ing_src>>
    /\ pc' = "done"
    /\ UNCHANGED app_vars
    /\ UNCHANGED <<pos, mode, lines, line, factor, m, scaled, servings_raw, servings_num,
                   fn_value, fn_prefer_comma, fn_txt>>

\* the fallback block and the return
Fallback ==
    /\ pc = "fallback"
    /\ LET ing_block == IngBlock(lines, <<>>)
       IN  IF ing_block # <<>>
           THEN /\ ingredients' = ing_block
                /\ ing_src' = IngBlockSrc(lines, 1, <<>>)
                /\ steps' = FallbackSteps(lines, ing_block)
                /\ steps_src' = FallbackStepsSrc(lines, ing_block)
           ELSE UNCHANGED <<ingredients, steps, ing_src, steps_src>>
    /\ pc' = "done"
    /\ UNCHANGED app_vars
    /\ UNCHANGED <<pos, mode, lines, line, factor, m, scaled, servings_raw, servings_num,
                   fn_value, fn_prefer_comma, fn_txt>>

NextClassify == LoopIngHeader \/ LoopStepsHeader \/ LoopLine \/ LoopExit \/ Fallback

SpecClassify == InitClassify /\ [][NextClassify]_vars

(***************************************************************************)
(* Claims about the quantity scaler, checked under SpecScale.              *)
(***************************************************************************)
\* the example lines of the claims
EX_500G == <<"5", "0", "0", " ", "g", " ", "M", "e", "h", "l">>

EX_750G == <<"7", "5", "0", " ", "g", " ", "M", "e", "h", "l">>

EX_RANGE_IN == <<"2", "-", "3", " ", "E", "L", " ", "Z", "u", "c", "k", "e", "r">>

EX_RANGE_OUT == <<"4", "U+2013", "6", " ", "E", "L", " ", "Z", "u", "c", "k", "e", "r">>

EX_MIXED_IN == <<"1", " ", "1", "/", "2", " ", "T", "L", " ", "S", "a", "l", "z">>

EX_MIXED_OUT == <<"3", " ", "T", "L", " ", "S", "a", "l", "z">>

EX_FRAC_IN == <<"U+00BD", " ", "T", "a", "s", "s", "e", " ", "M", "i", "l", "c", "h">>

EX_FRAC_OUT == <<"1", ".", "5", " ", "T", "a", "s", "s", "e", " ", "M", "i", "l", "c", "h">>

\* the line without its leading whitespace, and the offset where that starts
Stripped == LStrip(line)

Off == Len(line) - Len(Stripped)

\* the unit names the Unit Detector can return for the whole-number units
IntegerUnits == {G_, GRAMM, ML, STK, <<"s", "t", "u", "e", "c", "k">>}

\* C1: scale_line_smart never raises: for every line and every positive factor
\* the call returns a string.
C1_NeverRaises == pc = "done" => scaled.kind = "ok"

\* the first non-whitespace character is neither a digit nor a fraction glyph
NoLeadingNumber == Stripped = <<>> \/ (~IsDigit(Stripped[1]) /\ ~IsFrac(Stripped[1]))

\* C2: a line whose first non-whitespace text is not a number is returned
\* exactly as it was given, for every factor.
C2_NoNumberUnchanged == (pc = "done" /\ NoLeadingNumber) => scaled = Ok(line)

C2_Witness ==
    /\ pc = "done" /\ NoLeadingNumber
    /\ Len(line) > 2 /\ IsSpace(line[1]) /\ factor = Rat(3, 2)
    /\ scaled = Ok(line)

\* the unit's rounding rule leaves the parsed value (both bounds of a range) as it is
RoundingKeepsValue ==
    LET unit == _detect_unit_after(line, m.end)
    IN  IF m.kind = "range"
        THEN REq(_apply_round(unit, m.val.a), m.val.a) /\ REq(_apply_round(unit, m.val.b), m.val.b)
        ELSE REq(_apply_round(unit, m.val), m.val)

\* C3: factor-1 idempotence: a line with a leading quantity whose value the
\* unit's rounding rule does not alter is returned with the same text when
\* scaled by 1.
C3_FactorOneIdempotent ==
    (pc = "done" /\ factor = Rat(1, 1) /\ m.kind \in {"single", "range"} /\ RoundingKeepsValue)
        => scaled = Ok(line)

\* n is an integer nearest to x
NearestInt(n, x) == 2 * n * x.d - 2 * x.n <= x.d /\ 2 * x.n - 2 * n * x.d <= x.d

\* C4: a line that starts with a simple integer followed by a whole-number unit
\* comes back with the numeral replaced by the decimal numeral of the integer
\* nearest to value * factor and the rest of the line intact; "500 g Mehl"
\* scaled by 1.5 gives "750 g Mehl".
C4_IntegerUnitScaled ==
    LET e    == DigitsEnd(Stripped, 0)
        v    == Rat(StrToInt(Slice(Stripped, 0, e)), 1)
        unit == _detect_unit_after(line, Off + e)
        x    == RMul(v, factor)
    IN  /\ (pc = "done" /\ e > 0 /\ m = Token("single", Off, Off + e, v, FALSE)
              /\ unit # None /\ unit.val \in IntegerUnits)
            => \E n \in {x.n \div x.d, (x.n \div x.d) + 1} :
                  /\ NearestInt(n, x)
                  /\ scaled = Ok(Slice(line, 0, Off) \o IntToStr(n) \o From(line, Off + e))
        /\ (pc = "done" /\ line = EX_500G /\ factor = Rat(3, 2))
            => scaled = Ok(EX_750G)

\* C5: a line that starts with a range has both bounds scaled, rounded with the
\* rule of the unit after the range and formatted, each on its own, and joined
\* by an en-dash whatever the separator was; "2-3 EL Zucker" scaled by 2 gives
\* "4-6 EL Zucker" with an en-dash.
C5_RangeScaled ==
    LET rm == RangeMatch(Stripped)
    IN  /\ (pc = "done" /\ rm # None)
            => LET a     == NumeralValue(Slice(Stripped, 0, rm.e1))
                   b     == NumeralValue(Slice(Stripped, rm.b2, rm.e2))
                   end   == Off + rm.e2
                   unit  == _detect_unit_after(line, end)
                   comma == Contains(Slice(Stripped, 0, rm.e1), ",")
               IN  scaled = Ok(Slice(line, 0, Off)
                               \o _format_number(_apply_round(unit, RMul(a, factor)), comma)
                               \o <<"U+2013">>
                               \o _format_number(_apply_round(unit, RMul(b, factor)), comma)
                               \o From(line, end))
        /\ (pc = "done" /\ line = EX_RANGE_IN /\ factor = Rat(2, 1))
            => scaled = Ok(EX_RANGE_OUT)

C5_Witness ==
    /\ pc = "done" /\ line = EX_RANGE_IN /\ factor = Rat(2, 1)
    /\ m.kind = "range" /\ scaled = Ok(EX_RANGE_OUT)

\* C6: a line that starts with <integer> <integer>/<integer> is parsed as one
\* single quantity of value integer + numerator/denominator, prefer_comma
\* false, whose span covers the whole mixed fraction; "1 1/2 TL Salz" scaled
\* by 2 gives "3 TL Salz".
C6_MixedFractionParsed ==
    LET mm == MixedMatch(Stripped)
    IN  /\ (pc = "done" /\ mm # None)
            => LET i   == StrToInt(Slice(Stripped, 0, mm.e1))
                   num == StrToInt(Slice(Stripped, mm.b2, mm.e2))
                   den == StrToInt(Slice(Stripped, mm.e2 + 1, mm.e3))
               IN  /\ m.kind = "single"
                   /\ m.start = Off /\ m.end = Off + mm.e3
                   /\ m.had_comma = FALSE
                   /\ m.val.n * den = (i * den + num) * m.val.d
        /\ (pc = "done" /\ line = EX_MIXED_IN /\ factor = Rat(2, 1))
            => scaled = Ok(EX_MIXED_OUT)

\* C7: a line that starts with an optional integer of any number of digits
\* directly followed by a fraction glyph is parsed as a single quantity of
\* value integer (default 0) + glyph value with prefer_comma false, and the
\* scaled quantity is rendered with a period; "(1/2) Tasse Milch" scaled by 3
\* gives "1.5 Tasse Milch".
C7_UnicodeFractionParsed ==
    LET d == DigitsEnd(Stripped, 0)
    IN  /\ (pc = "done" /\ d < Len(Stripped) /\ IsFrac(Stripped[d + 1]))
            => LET v    == RAdd(Rat(StrToInt(Slice(Stripped, 0, d)), 1),
                                UNICODE_FRACTIONS[Stripped[d + 1]])
                   unit == _detect_unit_after(line, Off + d + 1)
               IN  /\ m.kind = "single"
                   /\ m.start = Off /\ m.end = Off + d + 1
                   /\ m.had_comma = FALSE
                   /\ REq(m.val, v)
                   /\ scaled = Ok(Slice(line, 0, Off)
                                  \o _format_number(_apply_round(unit, RMul(v, factor)), FALSE)
                                  \o From(line, Off + d + 1))
        /\ (pc = "done" /\ line = EX_FRAC_IN /\ factor = Rat(3, 1))
            => scaled = Ok(EX_FRAC_OUT)

(***************************************************************************)
(* Claim about extract_servings_num, checked under SpecServings.           *)
(***************************************************************************)
\* C8: extract_servings_num returns the first decimal number of the text
\* (digits, then optionally a comma or period and further digits), and None
\* when the text is missing, empty or has no digit; "4 Portionen" gives 4.0
\* and "Portionen" gives None.
C8_FirstNumber ==
    /\ pc = "done" =>
        IF servings_raw = None
        THEN servings_num = None
        ELSE LET s == servings_raw.val
             IN  IF \A p \in 1..Len(s) : ~IsDigit(s[p])
                 THEN servings_num = None
                 ELSE LET i     == (CHOOSE p \in 1..Len(s) :
                                       IsDigit(s[p]) /\ \A q \in 1..(p - 1) : ~IsDigit(s[q])) - 1
                          j     == DigitsEnd(s, i)
                          sep   == j < Len(s) /\ s[j + 1] \in {".", ","}
                          frac  == IF sep THEN Slice(s, j + 1, DigitsEnd(s, j + 1)) ELSE <<>>
                          whole == StrToInt(Slice(s, i, j))
                      IN  /\ servings_num # None
                          /\ servings_num.n * Pow10(Len(frac))
                               = (whole * Pow10(Len(frac)) + StrToInt(frac)) * servings_num.d
    /\ (pc = "done" /\ servings_raw = Str(EX_4PORTIONEN)) => servings_num = Rat(4, 1)
    /\ (pc = "done" /\ servings_raw = Str(EX_PORTIONEN)) => servings_num = None

C8_Witness ==
    /\ pc = "done"
    /\ servings_raw = Str(<<"P", "2", ",", "4">>)
    /\ servings_num # None /\ REq(servings_num, Rat(24, 10))

(***************************************************************************)
(* Claims about the section classifier, checked under SpecClassify.        *)
(***************************************************************************)
IsHeader(l) == RE_ING_HEADER(l) \/ RE_STEPS_HEADER(l)

\* lines is an ingredients header, one or more bullet-marked lines, a steps
\* header and then lines that are neither headers nor empty; k is the place of
\* the steps header
HeaderShapeAt(k) ==
    /\ RE_ING_HEADER(lines[1])
    /\ \A i \in 2..(k - 1) : BULLET(lines[i]) >= 0 /\ ~IsHeader(lines[i])
    /\ RE_STEPS_HEADER(lines[k]) /\ ~RE_ING_HEADER(lines[k])
    /\ \A i \in (k + 1)..Len(lines) : ~IsHeader(lines[i]) /\ lines[i] # <<>>

\* C9: for an ingredients header, bullet-marked lines, a steps header and
\* further lines, both headers are discarded, the ingredients are the bullet
\* lines without their markers and the steps are the lines after the steps
\* header (a marker at the start of such a line is stripped as well); the
\* example recipe gives ["200g Mehl", "1 Ei"] and ["Mehl und Ei verruehren."].
C9_HeaderSections ==
    /\ \A k \in 3..Len(lines) :
          (pc = "done" /\ HeaderShapeAt(k))
              => /\ Len(ingredients) = k - 2
                 /\ \A i \in 1..(k - 2) : ingredients[i] = BulletSub(lines[i + 1])
                 /\ Len(steps) = Len(lines) - k
                 /\ \A i \in 1..(Len(lines) - k) : steps[i] = BulletSub(lines[k + i])
    /\ (pc = "done" /\ lines = EX_RECIPE)
          => ingredients = <<EX_ING_MEHL, L_EI>> /\ steps = <<L_VERRUEHREN>>

C9_Witness ==
    /\ pc = "done" /\ lines = EX_RECIPE /\ mode = "steps"
    /\ ingredients = <<EX_ING_MEHL, L_EI>> /\ steps = <<L_VERRUEHREN>>

\* no line is a header or empty, the first bullet-marked line is at a, and the
\* last line of the run that starts there is at b
RunAt(a, b) ==
    /\ \A i \in 1..Len(lines) : ~IsHeader(lines[i]) /\ lines[i] # <<>>
    /\ \A i \in 1..(a - 1) : BULLET(lines[i]) < 0
    /\ \A i \in a..b : BULLET(lines[i]) >= 0
    /\ b = Len(lines) \/ BULLET(lines[b + 1]) < 0

\* C10: with no header line, the first contiguous run of bullet-marked lines
\* (markers stripped) is the ingredients, and the steps are exactly the lines
\* after the last line of the run, so no line of the run is a step.
C10_FallbackSplitsAtRun ==
    \A a \in 1..Len(lines) : \A b \in a..Len(lines) :
        (pc = "done" /\ RunAt(a, b))
            => /\ Len(ingredients) = b - a + 1
               /\ \A i \in 1..(b - a + 1) : ingredients[i] = BulletSub(lines[a + i - 1])
               /\ steps = From(lines, b)

\* the places in lines that ingredients and steps were taken from
IngPlaces == {ing_src[i] : i \in 1..Len(ing_src)}

StepPlaces == {steps_src[i] : i \in 1..Len(steps_src)}

\* C11: every line of the ingredients and of the steps is a line of the input,
\* with at most its bullet marker stripped, and no line of the input (by its
\* place) is the origin of both an ingredient and a step.
C11_DrawnFromInputDisjoint ==
    pc = "done" =>
        /\ Len(ing_src) = Len(ingredients) /\ Len(steps_src) = Len(steps)
        /\ \A i \in 1..Len(ingredients) :
              ingredients[i] \in {lines[ing_src[i]], BulletSub(lines[ing_src[i]])}
        /\ \A i \in 1..Len(steps) :
              steps[i] \in {lines[steps_src[i]], BulletSub(lines[steps_src[i]])}
        /\ IngPlaces \cap StepPlaces = {}

(***************************************************************************)
(* Claims about the rounding policy, checked under SpecScale.              *)
(***************************************************************************)
\* the unit the Unit Detector finds after the parsed quantity
DetectedUnit == _detect_unit_after(line, m.end)

\* the line with the matched span replaced by the text of the scaled
\* quantity, each scaled value put through rule before it is formatted
Spliced(rule(_)) ==
    Slice(line, 0, m.start)
        \o (IF m.kind = "range"
            THEN _format_number(rule(RMul(m.val.a, factor)), m.had_comma) \o <<"U+2013">>
                     \o _format_number(rule(RMul(m.val.b, factor)), m.had_comma)
            ELSE _format_number(rule(RMul(m.val, factor)), m.had_comma))
        \o From(line, m.end)

Identity(x) == x

\* the unit names the Unit Detector can return for the spoon and cup units
HalfUnits == {EL, TL, TASSE, CUP,
              <<"e", "s", "s", "l", "o", "e", "f", "f", "e", "l">>,
              <<"t", "e", "e", "l", "o", "e", "f", "f", "e", "l">>}

Matched == pc = "done" /\ m.kind \in {"single", "range"}

\* C12: when the unit detected after the quantity is g, gramm, ml, stk or
\* stueck, the scaled value (each bound of a range) is rounded to the nearest
\* integer before it is formatted.
C12_WholeUnitsRounded ==
    (Matched /\ DetectedUnit # None /\ DetectedUnit.val \in IntegerUnits)
        => scaled = Ok(Spliced(RoundInt))

\* C13: when the unit detected after the quantity is el, tl, essloeffel,
\* teeloeffel, tasse or cup, the scaled value (each bound of a range) is
\* rounded to the nearest multiple of one half before it is formatted.
C13_HalfUnitsRounded ==
    (Matched /\ DetectedUnit # None /\ DetectedUnit.val \in HalfUnits)
        => scaled = Ok(Spliced(round_half))

\* no unit follows the quantity, or the detected token has no rounding rule
NoRule ==
    \/ DetectedUnit = None
    \/ DetectedUnit.val \notin (DOMAIN UNITS_ROUNDING) \cup IntegerUnits \cup HalfUnits

\* C14: when no unit is detected, or the detected token is outside the
\* rounding table, the call returns normally and the value that is formatted
\* is exactly value * factor, not rounded.
C14_UnknownUnitNotRounded ==
    (Matched /\ NoRule) => scaled = Ok(Spliced(Identity))

EX_3EIER == <<"3", " ", "E", "i", "e", "r">>

EX_15EIER == <<"1", ".", "5", " ", "E", "i", "e", "r">>

C14_Witness ==
    /\ Matched /\ NoRule /\ line = EX_3EIER /\ factor = Rat(1, 2)
    /\ DetectedUnit = Str(<<"e", "i", "e", "r">>)
    /\ scaled = Ok(EX_15EIER)

(***************************************************************************)
(* Further claims about the section classifier, checked under SpecClassify.*)
(***************************************************************************)
\* no line of the input is a header or starts with a bullet marker
NoHeaderNoBullet == \A i \in 1..Len(lines) : ~IsHeader(lines[i]) /\ BULLET(lines[i]) < 0

\* the call is at a statement that can be carried out: a pass of the loop over
\* a line that is there, the end of the loop, or the fallback block
CanStep ==
    \/ pc = "loop" /\ pos < Len(lines)
          /\ (RE_ING_HEADER(Cur) \/ RE_STEPS_HEADER(Cur)
                \/ (~RE_ING_HEADER(Cur) /\ ~RE_STEPS_HEADER(Cur)))
    \/ pc = "loop" /\ pos = Len(lines)
    \/ pc = "fallback"

\* C15: guess_sections never raises: until it returns, the call is always at a
\* statement that can be carried out; and for an input without a header line
\* and without a bullet-marked line it returns no ingredients and no steps.
C15_NeverRaisesEmptyFallback ==
    /\ pc \in {"loop", "fallback", "done"}
    /\ pc # "done" => CanStep
    /\ (pc = "done" /\ NoHeaderNoBullet) => (ingredients = <<>> /\ steps = <<>>)

C15_Witness ==
    /\ pc = "done" /\ NoHeaderNoBullet /\ lines = <<L_EI, L_VERRUEHREN, L_BACKEN>>
    /\ ingredients = <<>> /\ steps = <<>>

(***************************************************************************)
(* Claim about the number formatter, checked under SpecFormat.             *)
(***************************************************************************)
\* s is a numeral with one separator, one or two decimals and no zero at its
\* end, or a numeral without a separator
Trimmed(s) ==
    LET seps == {i \in 1..Len(s) : s[i] \in {".", ","}}
    IN  /\ s # <<>>
        /\ \A i \in (1..Len(s)) \ seps : IsDigit(s[i])
        /\ \/ seps = {}
           \/ \E p \in 2..(Len(s) - 1) :
                 seps = {p} /\ Len(s) - p <= 2 /\ s[Len(s)] # "0"

\* C16: a value within 1e-6 of an integer n >= 0 is rendered as the decimal
\* numeral of n, without a separator (0 as "0", 10 as "10", 750 as "750"); any
\* other value is rendered with at most two decimals, no zero at the end of
\* the decimals and no separator at the end of the text.
C16_FormatterText ==
    pc = "done" =>
        IF FarFromInt(fn_value)
        THEN Trimmed(fn_txt.val)
        ELSE fn_txt = Str(IntToStr(round(fn_value)))

(***************************************************************************)
(* Further claims about the scaler, checked under SpecScale.               *)
(***************************************************************************)
\* the text that took the place of the matched span in the returned line
Body == Slice(scaled.val, m.start, Len(scaled.val) - (Len(line) - m.end))

\* the value is not an integer when rendered with two decimals
TwoDecimalsNotInteger(x) == round(Rat(x.n * 100, x.d)) % 100 # 0

\* part is the rendering of x in the style had_comma asks for: never the other
\* separator, and the right one wherever decimals are rendered
StyleKept(part, x, had_comma) ==
    /\ ~Contains(part, IF had_comma THEN "." ELSE ",")
    /\ TwoDecimalsNotInteger(x) => Contains(part, IF had_comma THEN "," ELSE ".")

\* the line starts with a numeral and fits none of the range, mixed-fraction
\* and glyph patterns
SimpleNumberLine ==
    /\ NumberEnd(Stripped, 0) >= 0
    /\ RangeMatch(Stripped) = None /\ MixedMatch(Stripped) = None
    /\ UnicodeMatch(Stripped) = None

\* C17: for a simple number prefer_comma is true exactly when the numeral has a
\* comma, for a range exactly when its first number has one; and the text of
\* a scaled quantity (of each bound of a range) uses a comma as its separator
\* when prefer_comma is true and a period when it is false.
C17_SeparatorStyleKept ==
    /\ (pc = "done" /\ SimpleNumberLine)
          => /\ m.kind = "single"
             /\ m.had_comma = Contains(Slice(Stripped, 0, NumberEnd(Stripped, 0)), ",")
    /\ (pc = "done" /\ RangeMatch(Stripped) # None)
          => /\ m.kind = "range"
             /\ m.had_comma = Contains(Slice(Stripped, 0, RangeMatch(Stripped).e1), ",")
    /\ (Matched /\ m.kind = "single")
          => /\ scaled.kind = "ok"
             /\ StyleKept(Body, _apply_round(DetectedUnit, RMul(m.val, factor)), m.had_comma)
    /\ (Matched /\ m.kind = "range")
          => /\ scaled.kind = "ok"
             /\ \E k \in 1..Len(Body) :
                   /\ Body[k] = "U+2013"
                   /\ StyleKept(SubSeq(Body, 1, k - 1),
                                _apply_round(DetectedUnit, RMul(m.val.a, factor)), m.had_comma)
                   /\ StyleKept(SubSeq(Body, k + 1, Len(Body)),
                                _apply_round(DetectedUnit, RMul(m.val.b, factor)), m.had_comma)

EX_COMMA_RANGE_IN == <<"2", ",", "5", "-", "3", " ", "T", "a", "s", "s", "e", "n">>

EX_COMMA_RANGE_OUT ==
    <<"1", ",", "2", "5", "U+2013", "1", ",", "5", " ", "T", "a", "s", "s", "e", "n">>

C17_Witness ==
    /\ pc = "done" /\ line = EX_COMMA_RANGE_IN /\ factor = Rat(1, 2)
    /\ m.kind = "range" /\ m.had_comma
    /\ scaled = Ok(EX_COMMA_RANGE_OUT)

\* the rounding rule of the detected unit
UnitRule(x) == _apply_round(DetectedUnit, x)

\* C18: when a quantity is matched, the returned line is line[0:start], the
\* text of the scaled quantity and line[end:]: the leading whitespace, the
\* unit word and everything after it are as they were in the line.
C18_OnlySpanReplaced ==
    Matched =>
        /\ scaled = Ok(Spliced(UnitRule))
        /\ Len(scaled.val) >= m.start + (Len(line) - m.end)
        /\ Slice(scaled.val, 0, m.start) = Slice(line, 0, m.start)
        /\ Slice(scaled.val, 0, Off) = Slice(line, 0, Off)
        /\ From(scaled.val, Len(scaled.val) - (Len(line) - m.end)) = From(line, m.end)

EX_LEAD_IN == <<" ", " ", "3", " ", "E", "i", "e", "r">>

EX_LEAD_OUT == <<" ", " ", "6", " ", "E", "i", "e", "r">>

C18_Witness ==
    /\ Matched /\ line = EX_LEAD_IN /\ factor = Rat(2, 1)
    /\ m.start = 2 /\ m.end = 3
    /\ scaled = Ok(EX_LEAD_OUT)

NonNegative(x) == x.n >= 0 /\ x.d > 0

\* C19: every token the parser returns has 0 <= start < end <= len(line),
\* start is the offset of the first non-whitespace character of the line, and
\* its value (each bound of a range) is not negative.
C19_TokenWellFormed ==
    Matched =>
        /\ 0 <= m.start /\ m.start < m.end /\ m.end <= Len(line)
        /\ m.start = LeadSpaces(line)
        /\ ~IsSpace(line[m.start + 1])
        /\ IF m.kind = "range"
           THEN NonNegative(m.val.a) /\ NonNegative(m.val.b)
           ELSE NonNegative(m.val)

C19_Witness ==
    /\ Matched /\ line = EX_LEAD_IN /\ factor = Rat(1, 2)
    /\ m = Token("single", 2, 3, Rat(3, 1), FALSE)

\* the stripped line starts with an optional integer directly followed by a glyph
GlyphLine ==
    LET d == DigitsEnd(Stripped, 0)
    IN  d < Len(Stripped) /\ IsFrac(Stripped[d + 1])

\* C20: one rule gives the token, the first that applies in the order range,
\* mixed fraction, glyph, simple number: a line that fits the range pattern
\* gets a range token over the range, one that fits the mixed-fraction pattern
\* a token over the mixed fraction, one that fits the glyph pattern a token
\* that ends after the glyph, and only a line that fits none of the three gets
\* the token of its leading numeral; a line without a leading numeral gets none.
C20_FirstRuleWins ==
    pc = "done" =>
        LET rm == RangeMatch(Stripped)
            mm == MixedMatch(Stripped)
            d  == DigitsEnd(Stripped, 0)
            e  == NumberEnd(Stripped, 0)
        IN  IF rm # None
            THEN m.kind = "range" /\ m.start = Off /\ m.end = Off + rm.e2
            ELSE IF mm # None
            THEN m.kind = "single" /\ m.start = Off /\ m.end = Off + mm.e3
            ELSE IF GlyphLine
            THEN /\ m.kind = "single" /\ m.start = Off /\ m.end = Off + d + 1
                 /\ REq(m.val, RAdd(Rat(StrToInt(Slice(Stripped, 0, d)), 1),
                                    UNICODE_FRACTIONS[Stripped[d + 1]]))
            ELSE IF UnicodeMatch(Stripped) # None
            THEN m.kind = "single"
            ELSE IF e >= 0
            THEN m = Token("single", Off, Off + e, NumeralValue(Slice(Stripped, 0, e)),
                           Contains(Slice(Stripped, 0, e), ","))
            ELSE m = None

(***************************************************************************)
(* Claim about the unit detector, checked under SpecScale.                 *)
(***************************************************************************)
\* a letter in lower case, an umlaut as its two-letter spelling
FoldChar(c) ==
    LET lc == LowerChar(c)
    IN  CASE lc = "U+00E4" -> <<"a", "e">>
          [] lc = "U+00F6" -> <<"o", "e">>
          [] lc = "U+00FC" -> <<"u", "e">>
          [] OTHER -> <<lc>>

RECURSIVE Folded(_)
Folded(s) == IF s = <<>> THEN <<>> ELSE FoldChar(Head(s)) \o Folded(Tail(s))

\* the text after the quantity, trimmed
Rest == Strip(From(line, m.end))

\* C21: the detected unit is the run of letters that follows the quantity, in
\* lower case and with every umlaut spelled ae, oe, ue, so it holds no umlaut
\* and no capital letter; it is absent when the text after the quantity is
\* empty or starts with a character that is not a letter.
C21_UnitFolded ==
    Matched =>
        IF Rest = <<>> \/ ~IsLetter(Rest[1])
        THEN DetectedUnit = None
        ELSE /\ DetectedUnit = Str(Folded(Slice(Rest, 0, LettersEnd(Rest, 0))))
             /\ \A i \in 1..Len(DetectedUnit.val) :
                   /\ ~IsUpper(DetectedUnit.val[i])
                   /\ DetectedUnit.val[i] \notin {"U+00E4", "U+00F6", "U+00FC"}

EX_3STUECK == <<"3", " ", "S", "t", "U+00FC", "c", "k">>

C21_Witness ==
    /\ Matched /\ line = EX_3STUECK /\ factor = Rat(2, 1)
    /\ DetectedUnit = Str(<<"s", "t", "u", "e", "c", "k">>)

(***************************************************************************)
(* Claims about the passes of the classifier's loop, checked under         *)
(* SpecClassify.                                                           *)
(***************************************************************************)
\* the step is a pass of the loop over the line Cur
LoopPass == pc = "loop" /\ pos < Len(lines) /\ pos' = pos + 1

\* C22, as stated: in state STEPS every non-empty line is appended to the steps
\* with its bullet marker stripped, and the state stays STEPS.
C22_StepsTakesEveryLine ==
    [][(LoopPass /\ mode = "steps" /\ Cur # <<>>)
          => (steps' = Append(steps, BulletSub(Cur)) /\ mode' = "steps")]_vars

\* C22, amended: in state STEPS every non-empty line that is not a header line
\* is appended to the steps with its bullet marker stripped, the ingredients
\* are left alone and the state stays STEPS.
C22_StepsTakesNonHeaderLine ==
    [][(LoopPass /\ mode = "steps" /\ Cur # <<>> /\ ~IsHeader(Cur))
          => /\ steps' = Append(steps, BulletSub(Cur))
             /\ ingredients' = ingredients
             /\ mode' = "steps"]_vars

EX_OFEN == <<"O", "f", "e", "n", " ", "v", "o", "r", "h", "e", "i", "z", "e", "n">>

C22_Witness ==
    /\ pc = "done" /\ lines = EX_RECIPE_EN /\ mode = "steps"
    /\ steps = <<EX_OFEN, L_VERRUEHREN>>
    /\ steps_src = <<5, 6>>

\* l begins with a bullet marker, or with digits (or none), a space (or none)
\* and then a letter
ItemLine(l) ==
    \/ BULLET(l) >= 0
    \/ \E d \in 0..Len(l) :
          /\ \A i \in 1..d : IsDigit(l[i])
          /\ \/ d < Len(l) /\ IsLetter(l[d + 1])
             \/ d + 1 < Len(l) /\ IsSpace(l[d + 1]) /\ IsLetter(l[d + 2])

\* what a pass over Cur in state INGREDIENTS does, by the kind of line
IngredientsRule ==
    IF ItemLine(Cur)
    THEN /\ ingredients' = Append(ingredients, BulletSub(Cur))
         /\ steps' = steps
         /\ mode' = "ing"
    ELSE WordCount(Cur) > 3
            => /\ mode' = "steps"
               /\ steps' = Append(steps, BulletSub(Cur))
               /\ ingredients' = ingredients

\* C23, as stated: in state INGREDIENTS a line that begins with a bullet marker
\* or with optional digits, an optional space and a letter is appended to the
\* ingredients, marker stripped, and the state stays INGREDIENTS; any other
\* line of more than three words moves the state to STEPS and is appended to
\* the steps.
C23_IngredientsRuleEveryLine ==
    [][(LoopPass /\ mode = "ing") => IngredientsRule]_vars

\* C23, amended: the same for every line that is not a header line.
C23_IngredientsRuleNonHeaderLine ==
    [][(LoopPass /\ mode = "ing" /\ ~IsHeader(Cur)) => IngredientsRule]_vars

C23_Witness ==
    /\ pc = "done" /\ lines = <<L_ZUTATEN, L_B_EI, L_BACKEN>>
    /\ ingredients = <<L_EI>> /\ steps = <<L_BACKEN>> /\ mode = "steps"

\* out lists lines of the input, taken from the places src, in the order of
\* the input
OrderedFrom(out, src) ==
    /\ Len(src) = Len(out)
    /\ \A i \in 1..Len(out) : out[i] \in {lines[src[i]], BulletSub(lines[src[i]])}
    /\ \A i \in 1..Len(src) : \A j \in (i + 1)..Len(src) : src[i] < src[j]

\* C24: at every point of the call, in the loop and after the fallback, the
\* ingredients and the steps each list lines of the input in the order in
\* which these lines stand in the input.
C24_OrderPreserved ==
    OrderedFrom(ingredients, ing_src) /\ OrderedFrom(steps, steps_src)

C24_Witness ==
    /\ pc = "done" /\ lines = EX_RECIPE_EN
    /\ ingredients = <<EX_ING_MEHL, L_EI>> /\ ing_src = <<2, 3>>
    /\ Len(steps) = 2 /\ steps_src = <<5, 6>>

\* the loop has passed over every line and found ingredients, so its outputs
\* are what the call returns
HeaderPassDone == pc = "loop" /\ pos = Len(lines) /\ ingredients # <<>>

\* the input is normalized: no line is empty
Normalized == \A i \in 1..Len(lines) : lines[i] # <<>>

\* C25: when the loop has found ingredients, every line that stands after an
\* ingredients header and is not a header line itself is the origin of an
\* ingredient or of a step, and not of both: no such line is dropped.
C25_NoLineDropped ==
    (HeaderPassDone /\ Normalized) =>
        \A h \in 1..Len(lines) : \A i \in (h + 1)..Len(lines) :
            (RE_ING_HEADER(lines[h]) /\ ~IsHeader(lines[i]))
                => (i \in IngPlaces) # (i \in StepPlaces)

(***************************************************************************)
(* modules/data.py: shopping_list_for_week, one pass of the loop over the  *)
(* plan items of the week, for a recipe of one ingredient line.            *)
(***************************************************************************)
\* a / b on floats: a zero divisor raises, x / inf is 0 and inf / inf is nan
RDiv(a, b) ==
    IF b.n = 0 /\ b.d # 0 THEN Raise("ZeroDivisionError")
    ELSE Ok(Rat(a.n * b.d, a.d * b.n))

IsNaN(x) == x.n = 0 /\ x.d = 0

\* extract_servings_num(r.servings) or 2.0: None and 0.0 are falsy
ItemBase(servings_raw_) ==
    LET num == extract_servings_num(servings_raw_)
    IN  IF num = None \/ (num.n = 0 /\ num.d # 0) THEN Rat(2, 1) ELSE num

\* (it.servings_target or base) / base: None and 0 are falsy
ItemFactor(servings_target_, base_) ==
    RDiv(IF servings_target_ = None \/ servings_target_ = IntOf(0)
         THEN base_ ELSE Rat(servings_target_.val, 1), base_)

\* scale_line_smart(line, factor) of the loop; round(nan) raises ValueError
ScaleItem(line_, factor_) ==
    IF factor_.kind = "raise" THEN factor_
    ELSE IF IsNaN(factor_.val)
    THEN LET m_ == _parse_leading_quantity(line_)
         IN  IF m_.kind = "raise" THEN m_
             ELSE IF m_ = None THEN Ok(line_)
             ELSE Raise("ValueError")
    ELSE scale_line_smart(line_, factor_.val)

\* largest enumerated servings_target of a plan item
MaxTarget == 4

\* a servings text of FLOAT_INF_DIGITS digits: 1 followed by zeros
BigServings == [i \in 1..FLOAT_INF_DIGITS |-> IF i = 1 THEN "1" ELSE "0"]

\* "200 g Mehl" and a line without a quantity
L_200_G_MEHL == <<"2", "0", "0", " ", "g", " ", "M", "e", "h", "l">>

L_SALZ == <<"S", "a", "l", "z">>

ShoppingLines == {L_200_G_MEHL, L_SALZ}

InitShopping ==
    /\ pc = "item"
    /\ servings_raw \in {None} \cup {Str(SubSeq(s, 1, Len(s))) : s \in ServingsTexts}
                         \cup {Str(BigServings)}
    /\ servings_target \in {None} \cup {IntOf(k) : k \in 0..MaxTarget}
    /\ line \in ShoppingLines
    /\ item_base = None
    /\ factor = None /\ scaled = None
    /\ deck_pos = None /\ search = <<>> /\ card = None
    /\ servings_num = None /\ m = None
    /\ lines = <<>> /\ pos = 0 /\ mode = "None" /\ ingredients = <<>> /\ steps = <<>>
    /\ ing_src = <<>> /\ steps_src = <<>>
    /\ fn_value = Rat(0, 1) /\ fn_prefer_comma = FALSE /\ fn_txt = None

ShoppingItem ==
    /\ pc = "item"
    /\ item_base' = ItemBase(servings_raw)
    /\ factor' = ItemFactor(servings_target, item_base')
    /\ scaled' = ScaleItem(line, factor')
    /\ pc' = "listed"
    /\ UNCHANGED <<servings_raw, servings_target, line, deck_pos, search, card>>
    /\ UNCHANGED <<servings_num, m, lines, pos, mode, ingredients, steps, ing_src, steps_src,
                   fn_value, fn_prefer_comma, fn_txt>>

NextShopping == ShoppingItem

SpecShopping == InitShopping /\ [][NextShopping]_vars

\* C26: in shopping_list_for_week, for every plan item whose servings_target is
\* null or a non-negative integer and every stored servings text, the scale
\* factor is defined and strictly positive: the base is never 0, and a null or
\* zero servings_target gives factor 1
C26_FactorDefinedPositive ==
    pc = "listed" =>
        /\ item_base.n # 0
        /\ IF factor.kind = "ok"
           THEN /\ factor.val.n > 0 /\ factor.val.d > 0
                /\ (servings_target = None \/ servings_target = IntOf(0))
                       => REq(factor.val, Rat(1, 1))
           ELSE FALSE

\* C26 holds for every servings text whose number is a finite float
C26_FiniteFactorDefinedPositive ==
    (pc = "listed" /\ item_base.d # 0) =>
        /\ item_base.n # 0
        /\ IF factor.kind = "ok"
           THEN /\ factor.val.n > 0 /\ factor.val.d > 0
                /\ (servings_target = None \/ servings_target = IntOf(0))
                       => REq(factor.val, Rat(1, 1))
           ELSE FALSE

(***************************************************************************)
(* pages/meal_planner.py: the swipe deck of render.  Every step is one run *)
(* of the page script; st.session_state.deck_pos lives across the runs.    *)
(***************************************************************************)
\* number of recipes in the cookbook
MaxRecipes == 8

\* titles of stored recipes, newest first (ORDER BY created_at DESC)
Cookbook ==
    << <<"P", "a", "s", "t", "a">>, <<"P", "i", "z", "z", "a">>,
       <<"S", "a", "l", "a", "t">>, <<"S", "u", "p", "p", "e">>,
       <<"P", "e", "s", "t", "o">>, <<"S", "u", "s", "h", "i">>,
       <<"R", "i", "s", "o", "t", "t", "o">>, <<"P", "a", "e", "l", "l", "a">>,
       <<"S", "p", "i", "n", "a", "t">>, <<"P", "o", "r", "r", "i", "d", "g", "e">> >>

Recipes == SubSeq(Cookbook, 1, IF MaxRecipes < Len(Cookbook) THEN MaxRecipes ELSE Len(Cookbook))

\* title LIKE '%q%' of SQLite on ASCII text without wildcards: q occurs in
\* title, letter case ignored
Like(title, q) ==
    \E i \in 1..(Len(title) - Len(q) + 1) :
        Lower(SubSeq(title, i, i + Len(q) - 1)) = Lower(q)

RECURSIVE SelectTitles(_, _)
SelectTitles(rows, q) ==
    IF rows = <<>> THEN <<>>
    ELSE (IF Like(Head(rows), q) THEN <<Head(rows)>> ELSE <<>>) \o SelectTitles(Tail(rows), q)

\* list_recipes(search): an empty search text selects every recipe
list_recipes(search_) ==
    IF search_ = <<>> THEN Recipes ELSE SelectTitles(Recipes, search_)

\* the titles of _recipe_index(search), in the order of the list
_recipe_index(search_) == list_recipes(search_)

\* texts typed into the search field
SearchTexts ==
    {<<>>, <<"p">>, <<"s">>, <<"a">>, <<"o">>, <<"P", "a">>, <<"P", "i">>, <<"s", "u">>,
     <<"x">>}

Info == [kind |-> "info"]

\* the deck part of one run of render: the search field holds search_, pressed
\* names the deck button that caused the run ("shuffle", "skip" or "none") and
\* top is the place random.shuffle gives the first card
RenderDeck(search_, pressed, top) ==
    LET idx == _recipe_index(search_)
    IN  IF idx = <<>>
        THEN /\ card' = Info
             /\ deck_pos' = deck_pos
        ELSE LET p0 == IF deck_pos = None THEN 0 ELSE deck_pos.val
                 p1 == IF pressed = "shuffle" THEN 0 ELSE p0
             IN  IF p1 >= Len(idx)
                 THEN /\ card' = Raise("IndexError")
                      /\ deck_pos' = IntOf(p1)
                 ELSE /\ card' = Str(IF pressed = "shuffle" THEN idx[top] ELSE idx[p1 + 1])
                      /\ deck_pos' = IntOf(IF pressed = "skip" THEN (p1 + 1) % Len(idx) ELSE p1)

InitDeck ==
    /\ pc = "page"
    /\ deck_pos = None /\ search = <<>> /\ card = None
    /\ servings_target = None /\ item_base = None
    /\ line = <<>> /\ factor = Rat(1, 1) /\ m = None /\ scaled = None
    /\ servings_raw = None /\ servings_num = None
    /\ lines = <<>> /\ pos = 0 /\ mode = "None" /\ ingredients = <<>> /\ steps = <<>>
    /\ ing_src = <<>> /\ steps_src = <<>>
    /\ fn_value = Rat(0, 1) /\ fn_prefer_comma = FALSE /\ fn_txt = None

deck_rest ==
    <<pc, servings_target, item_base, line, factor, m, scaled, servings_raw, servings_num,
      lines, pos, mode, ingredients, steps, ing_src, steps_src,
      fn_value, fn_prefer_comma, fn_txt>>

\* a run with no deck event: the page is opened, or another widget changed
Rerun ==
    /\ pc = "page"
    /\ RenderDeck(search, "none", 1)
    /\ UNCHANGED search
    /\ UNCHANGED deck_rest

\* the user changes the text of the search field
ChangeSearch ==
    /\ pc = "page"
    /\ card # None
    /\ \E q \in SearchTexts \ {search} :
          /\ search' = q
          /\ RenderDeck(q, "none", 1)
    /\ UNCHANGED deck_rest

\* the user presses the shuffle button, which the last run drew
Shuffle ==
    /\ pc = "page"
    /\ card.kind \in {"str", "raise"}
    /\ \E top \in 1..Len(_recipe_index(search)) : RenderDeck(search, "shuffle", top)
    /\ UNCHANGED search
    /\ UNCHANGED deck_rest

\* the user presses the skip button, which the last run drew below the card
Skip ==
    /\ pc = "page"
    /\ card.kind = "str"
    /\ RenderDeck(search, "skip", 1)
    /\ UNCHANGED search
    /\ UNCHANGED deck_rest

NextDeck == Rerun \/ ChangeSearch \/ Shuffle \/ Skip

SpecDeck == InitDeck /\ [][NextDeck]_vars

\* C27: after any sequence of skip, shuffle and search-text changes, whenever
\* the deck has a recipe to show, the card is displayed and the stored deck
\* position is a valid index of the current recipe list
C27_DeckPosValid ==
    (pc = "page" /\ card.kind \in {"str", "raise"}) =>
        /\ card.kind = "str"
        /\ deck_pos # None
        /\ 0 <= deck_pos.val /\ deck_pos.val < Len(_recipe_index(search))

\* skip and shuffle alone keep the deck position a valid index
C27_ValidWhileSearchUnchanged ==
    [][(pc = "page" /\ search' = search /\ card.kind = "str") => card'.kind = "str"]_vars

====
